---- MODULE Spec2Model ----
(***************************************************************************)
(* Model of app.py (Earth 3.0 demo dashboard): the synthetic series        *)
(* generator behind its 10-minute cache, the PDF renderer, the audit       *)
(* handler run by concurrent sessions, and the impact simulation handler.  *)
(*                                                                         *)
(* Units.  Scores are integers in thousandths (60000 is 60.0).  Time is    *)
(* whole seconds since 2024-01-01 00:00:00 UTC.  Revenue is in hundredths  *)
(* of a million USD.  Page coordinates are hundredths of a point.         *)
(***************************************************************************)
EXTENDS Integers, Sequences, FiniteSets, TLC

VARIABLES
    now,            \* the UTC wall clock, seconds since 2024-01-01 00:00:00
    ticks,          \* how many times the clock has advanced (bounded)
    calls,          \* how many direct calls have been made (bounded)
    rng,            \* state of the process-wide numpy generator (np.random)
    cache,          \* st.cache_data store: key -> <<>> or <<[df, at]>>
    lock,           \* st.cache_data per-key compute lock: key -> holder, 0 if free
    sess,           \* per session: widget state and the audit handler's locals
    gen_call,       \* the last direct call of generate_time_series
    returned,       \* every (seed, periods, values, computed_at) a direct call returned
    buffer,         \* the io.BytesIO of the last make_pdf_bytes call
    pdf_call,       \* the last direct call of make_pdf_bytes
    pdf_prev,       \* the direct call of make_pdf_bytes before it
    base_revenue,   \* number_input "rev"
    invest_pct,     \* slider "improve"
    impact          \* what the last Run Impact Simulation displayed

vars == <<now, ticks, calls, rng, cache, lock, sess, gen_call, returned, buffer,
          pdf_call, pdf_prev, base_revenue, invest_pct, impact>>

(***************************************************************************)
(* Bounds of the model                                                     *)
(***************************************************************************)
MaxPeriods == 3
MaxTicks == 2
MaxCalls == 2
MaxRuns == 2
MaxLines == 2

(***************************************************************************)
(* Program constants                                                       *)
(***************************************************************************)
TTL == 600
DefaultPeriods == 12
AuditSeed == 42
MinRevenue == 1000
MaxPct == 50

Cols == <<"Governance", "ESG", "Finance">>

(***************************************************************************)
(* The clock and the calendar (datetime.utcnow, pandas month-end dates)    *)
(***************************************************************************)
AtTime(day, h, m, s) == day * 86400 + h * 3600 + m * 60 + s

\* Jan 30 23:55, Mar 15 12:00, Dec 31 23:55: the clock of the direct callers
\* advances by five or ten minutes at a time.
StartTimes == { AtTime(29, 23, 55, 0), AtTime(74, 12, 0, 0), AtTime(365, 23, 55, 0) }
TickSteps == {300, 600}

IsLeap(y) == (y % 4 = 0) /\ ((y % 100 # 0) \/ (y % 400 = 0))

DaysInMonth(y, m) ==
    IF m = 2 THEN (IF IsLeap(y) THEN 29 ELSE 28)
    ELSE IF m \in {4, 6, 9, 11} THEN 30 ELSE 31

RECURSIVE WalkMonths(_, _, _)
WalkMonths(y, m, rem) ==
    IF rem < DaysInMonth(y, m)
    THEN [y |-> y, m |-> m, d |-> rem + 1]
    ELSE WalkMonths(IF m = 12 THEN y + 1 ELSE y,
                    IF m = 12 THEN 1 ELSE m + 1,
                    rem - DaysInMonth(y, m))

\* datetime.utcnow().date()
UtcDate(t) == WalkMonths(2024, 1, t \div 86400)

MonthNames == << "January", "February", "March", "April", "May", "June", "July",
                 "August", "September", "October", "November", "December" >>
Pad2(n) == IF n < 10 THEN "0" \o ToString(n) ELSE ToString(n)

\* f"{datetime.utcnow():%B %d, %Y %H:%M UTC}": the seconds are dropped
Strftime(t) ==
    LET date == UtcDate(t)
    IN MonthNames[date.m] \o " " \o Pad2(date.d) \o ", " \o ToString(date.y) \o " "
       \o Pad2((t % 86400) \div 3600) \o ":" \o Pad2((t % 3600) \div 60) \o " UTC"

\* a month as a count of months, so that months can be subtracted
MonthNo(y, m) == y * 12 + (m - 1)
MonthEnd(n) ==
    LET y == n \div 12
        m == (n % 12) + 1
    IN [y |-> y, m |-> m, d |-> DaysInMonth(y, m)]

DateLE(a, b) ==
    \/ a.y < b.y
    \/ a.y = b.y /\ a.m < b.m
    \/ a.y = b.y /\ a.m = b.m /\ a.d <= b.d

\* The month-end anchor pandas uses for date_range(end=today, freq='M'): the end
\* is rolled back to the latest month end that is not after it.
\* (variant: the end is taken to be the end of its own month)
RollForwardMonth(today) == MonthNo(today.y, today.m)
RollBackMonth(today) ==
    IF today.d = DaysInMonth(today.y, today.m)
    THEN MonthNo(today.y, today.m)
    ELSE MonthNo(today.y, today.m) - 1

\* pd.date_range(end=today, periods=periods, freq='M')
DateRange(today, periods) ==
    [i \in 1..periods |-> MonthEnd(RollBackMonth(today) - (periods - i))]

(***************************************************************************)
(* The process-wide generator (np.random.seed, np.random.normal)           *)
(***************************************************************************)
\* Gaussian(0, 4) outputs in thousandths, with far tails so that clipping at both
\* ends and rounding ties both occur.
NoiseTable == << -1250, 4150, -90000, 50, 41000, -4120, 1949, 150,
                 0, -2951, 7349, -50, 3000, -8049, 649, -150 >>

\* np.random.seed(seed): the state becomes a function of the seed alone
\* (variant: the generator is left as it is)
KeepState(seed) == rng
NpRandomSeed(seed) == (seed * 7 + 1) % 64

RngStep(x) == (5 * x + 3) % 64
RngOutput(x) == NoiseTable[((x \div 2) % 16) + 1]

RECURSIVE Draws(_, _)
Draws(x, n) == IF n = 0 THEN <<>> ELSE <<RngOutput(x)>> \o Draws(RngStep(x), n - 1)

RECURSIVE StateAfter(_, _)
StateAfter(x, n) == IF n = 0 THEN x ELSE StateAfter(RngStep(x), n - 1)

\* np.random.normal(0, 4, (periods, 3)): 3*periods draws, filled row by row
NpRandomNormal(x, periods) ==
    LET d == Draws(x, 3 * periods)
    IN [i \in 1..periods |-> [j \in 1..3 |-> d[3 * (i - 1) + j]]]

(***************************************************************************)
(* generate_time_series                                                    *)
(***************************************************************************)
\* np.linspace(60, 85, periods), entry i of 1..periods
Linspace(periods, i) ==
    IF periods = 1 THEN 60000 ELSE 60000 + (25000 * (i - 1)) \div (periods - 1)

\* df.clip(0,100)  (variant: no clipping)
NoClip(v) == v
Clip(v) == IF v < 0 THEN 0 ELSE IF v > 100000 THEN 100000 ELSE v

\* .round(1): to the nearest tenth, ties to the even tenth
Round1(v) ==
    LET q == v \div 100
        r == v % 100
    IN IF r < 50 THEN q * 100
       ELSE IF r > 50 THEN (q + 1) * 100
       ELSE IF q % 2 = 0 THEN q * 100 ELSE (q + 1) * 100

EmptyDf == [index |-> <<>>, rows |-> <<>>]

\* lines 40-45 once the noise is drawn: the frame, its index, clip, round
Frame(periods, noise, today) ==
    [index |-> DateRange(today, periods),
     rows  |-> [i \in 1..periods |->
                  [c \in {Cols[j] : j \in 1..3} |->
                      LET j == CHOOSE k \in 1..3 : Cols[k] = c
                      IN Round1(Clip(Linspace(periods, i) + noise[i][j]))]]]

\* the whole body, run at clock t from generator state given by the seeding
Body(seed, periods, t) ==
    Frame(periods, NpRandomNormal(NpRandomSeed(seed), periods), UtcDate(t))
BodyRng(seed, periods) == StateAfter(NpRandomSeed(seed), 3 * periods)

(***************************************************************************)
(* st.cache_data(ttl=600)                                                  *)
(***************************************************************************)
Seeds == {7, AuditSeed}
GenKeys == Seeds \X (1..MaxPeriods)
AuditKey == <<AuditSeed, DefaultPeriods>>
Keys == GenKeys \cup {AuditKey}

\* an entry is served while it is younger than the ttl
CacheHit(key, t) == cache[key] # <<>> /\ t < cache[key][1].at + TTL

(***************************************************************************)
(* make_pdf_bytes (reportlab canvas on an io.BytesIO)                      *)
(***************************************************************************)
\* A4 is 595.27 x 841.89 points
A4Height == 84189

\* io.BytesIO(): a new, empty buffer
\* (variant: the buffer of the previous call is written to again)
StaleBytesIO == buffer
BytesIO == <<>>

\* canvas.Canvas(buffer, pagesize=A4): no page yet, nothing drawn, default font
Canvas == [pages |-> <<>>, code |-> <<>>, font |-> <<"Helvetica", 12>>]

SetFont(c, name, size) == [c EXCEPT !.font = <<name, size>>]

DrawString(c, x, y, text) ==
    [c EXCEPT !.code = Append(@, [x |-> x, y |-> y, font |-> c.font, text |-> text])]

\* c.beginText(x, y) then text.setFont(name, size): the leading is 1.2 * size
BeginText(c, x, y, name, size) ==
    [x |-> x, y |-> y, font |-> <<name, size>>, leading |-> size * 120, items |-> <<>>]

\* text.textLine(line): draw the line at the cursor, move the cursor down a line
\* (variant: the cursor stays where it is)
TextLineNoAdvance(t, line) ==
    [t EXCEPT !.items = Append(@, [x |-> t.x, y |-> t.y, font |-> t.font, text |-> line])]
TextLine(t, line) ==
    [t EXCEPT !.items = Append(@, [x |-> t.x, y |-> t.y, font |-> t.font, text |-> line]),
              !.y = @ - t.leading]

\* for line in summary_lines: text.textLine(line)
RECURSIVE TextLines(_, _)
TextLines(t, lines) ==
    IF lines = <<>> THEN t ELSE TextLines(TextLine(t, Head(lines)), Tail(lines))

DrawText(c, t) == [c EXCEPT !.code = @ \o t.items]

ShowPage(c) == [c EXCEPT !.pages = Append(@, c.code), !.code = <<>>]

\* c.save(): a page with pending drawing is ended first; the document, stamped
\* with its creation time, is what gets written to the buffer
Save(c, t) ==
    LET d == IF c.code # <<>> THEN ShowPage(c) ELSE c
    IN [pages |-> d.pages, creation |-> t]

\* the title's dash and bullet are written as hyphens here
Title(org_name) == "Earth 3.0 - Board Audit Snapshot - " \o org_name
GeneratedLine(t) == "Generated: " \o Strftime(t)

\* lines 49-61: the document drawn for (org_name, summary_lines) at clock t
Document(org_name, summary_lines, t) ==
    LET c1 == SetFont(Canvas, "Helvetica-Bold", 16)
        c2 == DrawString(c1, 4000, A4Height - 6000, Title(org_name))
        c3 == SetFont(c2, "Helvetica", 10)
        c4 == DrawString(c3, 4000, A4Height - 8200, GeneratedLine(t))
        tx == TextLines(BeginText(c4, 4000, A4Height - 12000, "Helvetica", 11),
                        summary_lines)
        c5 == ShowPage(DrawText(c4, tx))
    IN Save(c5, t)

\* the buffer after c.save(); buffer.seek(0); buffer.read() returns all of it
MakePdfBuffer(org_name, summary_lines, t) ==
    Append(BytesIO, Document(org_name, summary_lines, t))

(***************************************************************************)
(* Initial values shared by the specifications                             *)
(***************************************************************************)
Sessions == {1, 2}
Orgs == {"", "Acme Global"}

NoPdf == <<>>

\* a session whose script has run to the end with no button pressed
IdleSession(org_text) ==
    [pc |-> "idle", org |-> org_text, noise |-> <<>>, df |-> EmptyDf, latest |-> <<>>,
     table |-> <<>>, generated_at |-> 0, summary_lines |-> <<>>, pdf |-> NoPdf,
     file_name |-> ""]

NoGenCall == [called |-> FALSE, seed |-> 0, periods |-> 0, df |-> EmptyDf,
              hit |-> FALSE, at |-> 0, computed_at |-> 0]
NoPdfCall == [called |-> FALSE, org |-> "", lines |-> <<>>, out |-> NoPdf, at |-> 0]
NoImpact == [shown |-> FALSE, base |-> 0, pct |-> 0, uplift |-> 0, projected |-> 0,
             sim_df |-> <<>>]

InitCommon ==
    /\ ticks = 0
    /\ calls = 0
    /\ rng = 0
    /\ cache = [k \in Keys |-> <<>>]
    /\ lock = [k \in Keys |-> 0]
    /\ sess = [s \in Sessions |-> IdleSession("Acme Global")]
    /\ gen_call = NoGenCall
    /\ returned = {}
    /\ buffer = <<>>
    /\ pdf_call = NoPdfCall
    /\ pdf_prev = NoPdfCall
    /\ base_revenue = 50000
    /\ invest_pct = 8
    /\ impact = NoImpact

Tick(steps) ==
    /\ ticks < MaxTicks
    /\ \E d \in steps : now' = now + d
    /\ ticks' = ticks + 1
    /\ UNCHANGED <<calls, rng, cache, lock, sess, gen_call, returned, buffer,
                   pdf_call, pdf_prev, base_revenue, invest_pct, impact>>

(***************************************************************************)
(* SpecGen: one caller invoking generate_time_series(seed, periods)        *)
(***************************************************************************)
Values(df) == df.rows

GenerateTimeSeries(seed, periods) ==
    LET key == <<seed, periods>>
        hit == CacheHit(key, now)
        df  == IF hit THEN cache[key][1].df ELSE Body(seed, periods, now)
        at  == IF hit THEN cache[key][1].at ELSE now
    IN /\ calls < MaxCalls
       /\ calls' = calls + 1
       /\ rng' = IF hit THEN rng ELSE BodyRng(seed, periods)
       /\ cache' = IF hit THEN cache
                   ELSE [cache EXCEPT ![key] = <<[df |-> df, at |-> now]>>]
       /\ gen_call' = [called |-> TRUE, seed |-> seed, periods |-> periods,
                       df |-> df, hit |-> hit, at |-> now, computed_at |-> at]
       /\ returned' = returned \cup
                        {[seed |-> seed, periods |-> periods, values |-> Values(df),
                          computed_at |-> at]}
       /\ UNCHANGED <<now, ticks, lock, sess, buffer, pdf_call, pdf_prev,
                      base_revenue, invest_pct, impact>>

GenCall == \E seed \in Seeds, periods \in 1..MaxPeriods : GenerateTimeSeries(seed, periods)

TickGen == Tick(TickSteps)

InitGen == InitCommon /\ now \in StartTimes
NextGen == GenCall \/ TickGen
SpecGen == InitGen /\ [][NextGen]_vars

(***************************************************************************)
(* Properties of generate_time_series                                      *)
(***************************************************************************)
MonthOf(date) == MonthNo(date.y, date.m)
IsMonthEnd(date) == date.d = DaysInMonth(date.y, date.m)

\* C1: any two series returned for the same (seed, periods) carry the same
\* Governance, ESG and Finance values in every row, whenever they were computed.
C1_Deterministic ==
    \A a \in returned : \A b \in returned :
        (a.seed = b.seed /\ a.periods = b.periods) => a.values = b.values

\* the same (seed, periods) was computed twice, at different times
C1_Witness ==
    \E a \in returned : \E b \in returned :
        a.seed = b.seed /\ a.periods = b.periods /\ a.computed_at # b.computed_at

\* what C2 says of every returned series, but for where the last row lies
C2_Shape(df, p) ==
    /\ Len(df.rows) = p
    /\ Len(df.index) = p
    /\ \A i \in 1..p : IsMonthEnd(df.index[i])
    /\ \A i \in 1..(p - 1) : MonthOf(df.index[i + 1]) = MonthOf(df.index[i]) + 1

\* C2 as claimed: a returned series has exactly p rows, dated by consecutive month
\* ends in ascending order, and its last row lies in the calendar month of the
\* call.
C2_EndsInCurrentMonth ==
    gen_call.called =>
        /\ C2_Shape(gen_call.df, gen_call.periods)
        /\ MonthOf(gen_call.df.index[gen_call.periods]) = MonthOf(UtcDate(gen_call.at))

\* C2 as amended: a returned series has exactly p rows, dated by consecutive month
\* ends in ascending order, and its last row is the latest month end that is not
\* after the UTC date on which the series was computed.
C2_EndsAtLastMonthEnd ==
    gen_call.called =>
        LET last == gen_call.df.index[gen_call.periods]
            day  == UtcDate(gen_call.computed_at)
        IN /\ C2_Shape(gen_call.df, gen_call.periods)
           /\ DateLE(last, day)
           /\ MonthOf(day) - MonthOf(last) <= 1
           /\ IsMonthEnd(day) => last = day

\* a single-row series, and a series whose last row is the day of the call
C2_Witness ==
    /\ gen_call.called
    /\ gen_call.periods = 1
    /\ \E r \in returned : r.periods = MaxPeriods
    /\ gen_call.df.index[1] = UtcDate(gen_call.at)

\* C3: every row of a returned series holds exactly the fields Governance, ESG
\* and Finance, each between 0 and 100 and a whole number of tenths.
C3_Bounded ==
    gen_call.called =>
        \A i \in 1..Len(gen_call.df.rows) :
            /\ DOMAIN gen_call.df.rows[i] = {"Governance", "ESG", "Finance"}
            /\ \A c \in DOMAIN gen_call.df.rows[i] :
                  /\ 0 <= gen_call.df.rows[i][c]
                  /\ gen_call.df.rows[i][c] <= 100000
                  /\ gen_call.df.rows[i][c] % 100 = 0

\* a series in which the noise was clipped at both ends
C3_Witness ==
    /\ gen_call.called
    /\ \E i \in 1..Len(gen_call.df.rows) : \E c \in DOMAIN gen_call.df.rows[i] :
          gen_call.df.rows[i][c] = 0
    /\ \E i \in 1..Len(gen_call.df.rows) : \E c \in DOMAIN gen_call.df.rows[i] :
          gen_call.df.rows[i][c] = 100000

\* C8: a series served from the cache is the series (values and row dates) that
\* running the body at the moment of the call would produce.
C8_CacheTransparent ==
    (gen_call.called /\ gen_call.hit) =>
        gen_call.df = Body(gen_call.seed, gen_call.periods, gen_call.at)

(***************************************************************************)
(* SpecPdf: one caller invoking make_pdf_bytes(org_name, summary_lines)    *)
(***************************************************************************)
LineAlphabet == {"", "Governance: 81.2"}

RECURSIVE ListsUpTo(_)
ListsUpTo(n) ==
    IF n = 0 THEN {<<>>}
    ELSE ListsUpTo(n - 1) \cup
         {Append(l, x) : l \in {m \in ListsUpTo(n - 1) : Len(m) = n - 1}, x \in LineAlphabet}

MakePdfBytes(org_name, summary_lines) ==
    /\ calls < MaxCalls
    /\ calls' = calls + 1
    /\ buffer' = MakePdfBuffer(org_name, summary_lines, now)
    /\ pdf_call' = [called |-> TRUE, org |-> org_name, lines |-> summary_lines,
                    out |-> buffer', at |-> now]
    /\ pdf_prev' = pdf_call
    /\ UNCHANGED <<now, ticks, rng, cache, lock, sess, gen_call, returned,
                   base_revenue, invest_pct, impact>>

PdfCall == \E org_name \in Orgs, summary_lines \in ListsUpTo(MaxLines) :
               MakePdfBytes(org_name, summary_lines)

TickPdf == Tick({60})

\* 12:00:30 on Mar 15
InitPdf == InitCommon /\ now = AtTime(74, 12, 0, 30)
NextPdf == PdfCall \/ TickPdf
SpecPdf == InitPdf /\ [][NextPdf]_vars

(***************************************************************************)
(* Properties of make_pdf_bytes                                            *)
(***************************************************************************)
\* C5: the bytes returned hold one document of exactly one page, whose drawn
\* texts are, from the top down, the title with the org name, the generation
\* timestamp, and then each summary line once, in input order, each lower on
\* the page than the one before.
C5_OnePageInOrder ==
    pdf_call.called =>
        /\ Len(pdf_call.out) = 1
        /\ Len(pdf_call.out[1].pages) = 1
        /\ LET page == pdf_call.out[1].pages[1]
               n == Len(pdf_call.lines)
           IN /\ Len(page) = 2 + n
              /\ page[1].text = "Earth 3.0 - Board Audit Snapshot - " \o pdf_call.org
              /\ page[2].text = "Generated: " \o Strftime(pdf_call.at)
              /\ \A i \in 1..n : page[2 + i].text = pdf_call.lines[i]
              /\ \A i \in 1..(Len(page) - 1) : page[i].y > page[i + 1].y

\* a call with an empty org name and the longest list, after a call with no lines
C5_Witness ==
    /\ pdf_call.called /\ pdf_call.org = "" /\ Len(pdf_call.lines) = MaxLines
    /\ pdf_prev.called /\ pdf_prev.lines = <<>>

\* a returned buffer with everything read from the clock blanked
Masked(out) ==
    [k \in 1..Len(out) |->
        [pages |-> [p \in 1..Len(out[k].pages) |->
                      [i \in 1..Len(out[k].pages[p]) |->
                          IF p = 1 /\ i = 2
                          THEN [out[k].pages[p][i] EXCEPT !.text = "Generated: "]
                          ELSE out[k].pages[p][i]]],
         creation |-> 0]]

\* C6: two calls with the same (org_name, summary_lines) return the same bytes
\* once the clock-derived timestamps are blanked, whatever was called between.
C6_SameButTimestamp ==
    (pdf_call.called /\ pdf_prev.called
       /\ pdf_call.org = pdf_prev.org /\ pdf_call.lines = pdf_prev.lines)
    => Masked(pdf_call.out) = Masked(pdf_prev.out)

\* two calls with the same arguments, in different minutes
C6_Witness ==
    /\ pdf_call.called /\ pdf_prev.called
    /\ pdf_call.org = pdf_prev.org /\ pdf_call.lines = pdf_prev.lines
    /\ pdf_call.lines # <<>>
    /\ pdf_call.out # pdf_prev.out

(***************************************************************************)
(* SpecImpact: the Impact Simulation card                                  *)
(***************************************************************************)
\* number_input(min_value=10.0): 10.00, 10.01, 123.45, 500.00 (hundredths)
RevenueChoices == {MinRevenue, MinRevenue + 1, 12345, 50000}

SetRevenue ==
    /\ \E r \in RevenueChoices : r >= MinRevenue /\ base_revenue' = r
    /\ UNCHANGED <<now, ticks, calls, rng, cache, lock, sess, gen_call, returned,
                   buffer, pdf_call, pdf_prev, invest_pct, impact>>

SetPct ==
    /\ \E p \in 0..MaxPct : invest_pct' = p
    /\ UNCHANGED <<now, ticks, calls, rng, cache, lock, sess, gen_call, returned,
                   buffer, pdf_call, pdf_prev, base_revenue, impact>>

\* Amounts the handler computes are kept exact, in units of 1/10000: a revenue
\* in hundredths times 100.
Exact(r) == r * 100

\* uplift = base_revenue * invest_pct / 100.0
\* (variant: divided by 10.0)
UpliftPerTen(base, pct) == base * pct * 10
Uplift(base, pct) == base * pct

\* projected = base_revenue + uplift
Projected(base, uplift) == Exact(base) + uplift

RunImpact ==
    /\ LET uplift == Uplift(base_revenue, invest_pct)
           projected == Projected(base_revenue, uplift)
       IN impact' = [shown |-> TRUE, base |-> base_revenue, pct |-> invest_pct,
                     uplift |-> uplift, projected |-> projected,
                     sim_df |-> << [Scenario |-> "Current", Revenue |-> Exact(base_revenue)],
                                   [Scenario |-> "With Earth 3.0", Revenue |-> projected] >>]
    /\ UNCHANGED <<now, ticks, calls, rng, cache, lock, sess, gen_call, returned,
                   buffer, pdf_call, pdf_prev, base_revenue, invest_pct>>

InitImpact == InitCommon /\ now = AtTime(74, 12, 0, 0)
NextImpact == SetRevenue \/ SetPct \/ RunImpact
SpecImpact == InitImpact /\ [][NextImpact]_vars

\* C4: for base revenue r >= 10 and pct in 0..50 the handler shows
\* projected = r * (1 + pct/100) and uplift = projected - r >= 0, the Current
\* bar is r, and pct = 0 gives uplift 0 and projected r.
C4_Impact ==
    impact.shown =>
        /\ impact.projected * 100 = Exact(impact.base) * (100 + impact.pct)
        /\ impact.uplift = impact.projected - Exact(impact.base)
        /\ impact.uplift >= 0
        /\ impact.sim_df[1] = [Scenario |-> "Current", Revenue |-> Exact(impact.base)]
        /\ impact.sim_df[2].Revenue = impact.projected
        /\ (impact.pct = 0 =>
              impact.uplift = 0 /\ impact.projected = Exact(impact.base))

\* the handler has run at the smallest revenue with a zero percentage, while the
\* widgets have since moved on
C4_Witness ==
    /\ impact.shown /\ impact.base = MinRevenue /\ impact.pct = 0
    /\ base_revenue # impact.base /\ invest_pct = MaxPct

(***************************************************************************)
(* Spec: two sessions of the app in one process, each running the script   *)
(* on its own thread; the ESG audit card                                   *)
(***************************************************************************)
Set(s, fields) == sess' = [sess EXCEPT ![s] = fields @@ @]

OthersUnchanged ==
    UNCHANGED <<now, ticks, gen_call, returned, pdf_call, pdf_prev,
                base_revenue, invest_pct, impact>>

\* line 102: editing the text input reruns the script with no button pressed
SetOrg(s) ==
    /\ sess[s].pc \in {"idle", "done"}
    /\ \E o \in Orgs : o # sess[s].org /\ sess' = [sess EXCEPT ![s] = IdleSession(o)]
    /\ UNCHANGED <<calls, rng, cache, lock, buffer>>
    /\ OthersUnchanged

\* line 103: the button reruns the script, which reads org and enters the branch
PressAudit(s) ==
    /\ sess[s].pc \in {"idle", "done"}
    /\ calls < MaxRuns
    /\ calls' = calls + 1
    /\ sess' = [sess EXCEPT ![s] = [IdleSession(sess[s].org) EXCEPT !.pc = "lookup"]]
    /\ UNCHANGED <<rng, cache, lock, buffer>>
    /\ OthersUnchanged

\* lines 105-106: after the sleep, the cached function looks its key up
CacheRead(s) ==
    /\ sess[s].pc = "lookup"
    /\ IF CacheHit(AuditKey, now)
       THEN Set(s, [pc |-> "show", df |-> cache[AuditKey][1].df])
       ELSE Set(s, [pc |-> "acquire"])
    /\ UNCHANGED <<calls, rng, cache, lock, buffer>>
    /\ OthersUnchanged

\* the compute lock of the key is taken by one thread at a time
\* (variant: no lock)
NoLock(key) == TRUE
CanAcquire(key) == lock[key] = 0

\* on a miss the thread takes the key's lock and looks again before computing
Acquire(s) ==
    /\ sess[s].pc = "acquire"
    /\ CanAcquire(AuditKey)
    /\ IF CacheHit(AuditKey, now)
       THEN /\ Set(s, [pc |-> "show", df |-> cache[AuditKey][1].df])
            /\ UNCHANGED lock
       ELSE /\ Set(s, [pc |-> "seed"])
            /\ lock' = [lock EXCEPT ![AuditKey] = s]
    /\ UNCHANGED <<calls, rng, cache, buffer>>
    /\ OthersUnchanged

\* line 39
Seed(s) ==
    /\ sess[s].pc = "seed"
    /\ rng' = NpRandomSeed(AuditSeed)
    /\ Set(s, [pc |-> "normal"])
    /\ UNCHANGED <<calls, cache, lock, buffer>>
    /\ OthersUnchanged

\* lines 40-41
Normal(s) ==
    /\ sess[s].pc = "normal"
    /\ rng' = StateAfter(rng, 3 * DefaultPeriods)
    /\ Set(s, [pc |-> "frame", noise |-> NpRandomNormal(rng, DefaultPeriods)])
    /\ UNCHANGED <<calls, cache, lock, buffer>>
    /\ OthersUnchanged

\* lines 42-45, then the result is stored under the key and the lock released
FrameAndStore(s) ==
    /\ sess[s].pc = "frame"
    /\ LET df == Frame(DefaultPeriods, sess[s].noise, UtcDate(now))
       IN /\ Set(s, [pc |-> "show", df |-> df])
          /\ cache' = [cache EXCEPT ![AuditKey] = <<[df |-> df, at |-> now]>>]
    /\ lock' = [lock EXCEPT ![AuditKey] = 0]
    /\ UNCHANGED <<calls, rng, buffer>>
    /\ OthersUnchanged

\* f"{k}: {v}" of a score: one decimal, as str() prints a rounded float
FormatScore(v) == ToString(v \div 1000) \o "." \o ToString((v % 1000) \div 100)

\* (variant: df.iloc[0])
FirstRow(df) == df.rows[1]
\* df.iloc[-1]
LastRow(df) == df.rows[Len(df.rows)]

\* lines 107-125: the latest row, the table, and the summary lines
Show(s) ==
    /\ sess[s].pc = "show"
    /\ LET latest == LastRow(sess[s].df)
       IN Set(s, [pc |-> "pdf",
                  latest |-> latest,
                  table |-> [j \in 1..3 |-> [Metric |-> Cols[j], Score |-> latest[Cols[j]]]],
                  generated_at |-> now,
                  summary_lines |->
                      << "Organization: " \o sess[s].org, "Generated: " \o Strftime(now) >>
                      \o [j \in 1..3 |-> Cols[j] \o ": " \o FormatScore(latest[Cols[j]])]])
    /\ UNCHANGED <<calls, rng, cache, lock, buffer>>
    /\ OthersUnchanged

\* line 126
MakePdf(s) ==
    /\ sess[s].pc = "pdf"
    /\ buffer' = MakePdfBuffer(sess[s].org, sess[s].summary_lines, now)
    /\ Set(s, [pc |-> "download", pdf |-> buffer'])
    /\ UNCHANGED <<calls, rng, cache, lock>>
    /\ OthersUnchanged

\* line 127
Download(s) ==
    /\ sess[s].pc = "download"
    /\ Set(s, [pc |-> "done", file_name |-> sess[s].org \o "_earth3_audit.pdf"])
    /\ UNCHANGED <<calls, rng, cache, lock, buffer>>
    /\ OthersUnchanged

\* a second passes, at any point of any run
TickRun == Tick({1})

\* ten minutes pass while no script is running
Wait ==
    /\ \A s \in Sessions : sess[s].pc \in {"idle", "done"}
    /\ Tick({TTL})

\* 23:59:59 on Jan 30: the next second starts a new minute and a month-end day
Init == InitCommon /\ now = AtTime(29, 23, 59, 59)
Next ==
    \/ \E s \in Sessions :
          \/ SetOrg(s) \/ PressAudit(s) \/ CacheRead(s) \/ Acquire(s) \/ Seed(s)
          \/ Normal(s) \/ FrameAndStore(s) \/ Show(s) \/ MakePdf(s) \/ Download(s)
    \/ TickRun
    \/ Wait
Spec == Init /\ [][Next]_vars

(***************************************************************************)
(* Properties of the audit handler                                         *)
(***************************************************************************)
\* the values of the handler's call when nothing else runs in the process (they
\* do not depend on the time of the call)
AloneValues == Values(Body(AuditSeed, DefaultPeriods, 0))

HasSeries(s) == sess[s].pc \in {"show", "pdf", "download", "done"}

C9_SummaryIsLastRow ==
    \A s \in Sessions :
        sess[s].pc = "done" =>
            LET r == sess[s]
                last == r.df.rows[DefaultPeriods]
                page == r.pdf[1].pages[1]
            IN /\ Len(r.df.rows) = DefaultPeriods
               /\ r.summary_lines =
                     << "Organization: " \o r.org,
                        "Generated: " \o Strftime(r.generated_at),
                        "Governance: " \o FormatScore(last["Governance"]),
                        "ESG: " \o FormatScore(last["ESG"]),
                        "Finance: " \o FormatScore(last["Finance"]) >>
               /\ r.table = << [Metric |-> "Governance", Score |-> last["Governance"]],
                               [Metric |-> "ESG", Score |-> last["ESG"]],
                               [Metric |-> "Finance", Score |-> last["Finance"]] >>
               /\ page[1].text = "Earth 3.0 - Board Audit Snapshot - " \o r.org
               /\ Len(page) = 7
               /\ \A i \in 1..5 : page[2 + i].text = r.summary_lines[i]
               /\ r.file_name = r.org \o "_earth3_audit.pdf"

\* a finished run for an empty org name, on a series whose last row differs from
\* its first
C9_Witness ==
    \E s \in Sessions :
        /\ sess[s].pc = "done"
        /\ sess[s].org = ""
        /\ sess[s].df.rows[1] # sess[s].df.rows[DefaultPeriods]

\* C10: when an audit run is done, the Generated line among the summary lines
\* and the Generated line make_pdf_bytes drew under the title are the same text.
C10_SingleTimestamp ==
    \A s \in Sessions :
        sess[s].pc = "done" =>
            sess[s].summary_lines[2] = sess[s].pdf[1].pages[1][2].text

====
